---- MODULE Spec2Model ----
(***************************************************************************)
(* Model of the BitwardenSecret reconciliation controller (src/main.rs).   *)
(*                                                                         *)
(* One BitwardenSecret name in one namespace is modelled: the controller   *)
(* runtime serialises reconciliations per resource name, and every cluster *)
(* object the code touches is keyed by that (name, namespace).  A          *)
(* reconciliation is split at its suspension points (the awaited cluster   *)
(* API calls and the blocking vault fetch); between two of them the user,  *)
(* the API server and the garbage collector may act.                       *)
(***************************************************************************)
EXTENDS Naturals, Sequences, FiniteSets, TLC

VARIABLES
    resource,   \* the BitwardenSecret in the cluster store, or NoResource
    secret,     \* the Secret of the same name in the store, or NoSecret
    nextUid,    \* next UID the API server hands out
    session,    \* state of the vault session held by the controller context
    pc,         \* position of the in-flight reconcile ("idle" when none)
    snap,       \* the snapshot (Arc<BitwardenSecret>) the reconcile was given
    action,     \* what determine_action returned for snap
    secret_keys,\* result of fetch_item held by the in-flight reconcile
    calls,      \* calls issued by the current / last reconcile invocation
    result,     \* what the last reconcile returned: "none", "Ok", "Err", "Abandoned"
    directive,  \* the Action handed to the runtime (by reconcile or on_error)
    on_error_called, \* whether on_error ran for the last invocation
    scheduled,  \* a reconcile of the name is due (change event or requeue)
    drifted     \* the secret was removed by hand after it had been created

vars == <<resource, secret, nextUid, session, pc, snap, action, secret_keys,
          calls, result, directive, on_error_called, scheduled, drifted>>

\* ---------------------------------------------------------------- bounds
MaxUid == 2          \* how many times the user may create the resource
MaxInvocations == 2  \* how many times in a row a caller invokes add_finalizer

\* ------------------------------------------------------------- constants
Name == "db-creds"
Namespace == "app"
FinalizerToken == "bitwardensecrets.tomjo.net/finalizer.secret"
HardcodedPath == "homelab/argo-minio"
Paths == {"homelab/argo-minio", "app/db-creds"}
Types == {"Opaque", "kubernetes.io/basic-auth"}
RequeueOk == 10
RequeueErr == 5

\* Option<Vec<String>> of metadata.finalizers
None == [some |-> FALSE, v |-> <<>>]
Some(s) == [some |-> TRUE, v |-> s]

\* Option<String> of metadata.namespace; metadata.uid is None when it is NoUid
NoNamespace == [some |-> FALSE, v |-> ""]
NoUid == 0

NoResource == [exists |-> FALSE]
NoSecret == [exists |-> FALSE]

\* Content of the vault, by item path
VaultItem(path) ==
    IF path = "homelab/argo-minio"
    THEN [key \in {"accesskey", "secretkey"} |-> "minio"]
    ELSE [key \in {"user", "pass"} |-> "db"]

NoKeys == [key \in {} |-> ""]

\* An entry of the call log; a failed cluster call carries the kind of failure
Call(op, arg, ok) == [op |-> op, arg |-> arg, ok |-> ok, kind |-> "none"]
ApiErr(op, arg, kind) == [op |-> op, arg |-> arg, ok |-> FALSE, kind |-> kind]

\* ------------------------------------------------------- pure functions
determine_action_NoOpFirst(bs) ==
    IF bs.finalizers.some /\ bs.finalizers.v # <<>> THEN "NoOp"
    ELSE IF bs.deletion_timestamp THEN "Delete"
    ELSE "Create"

determine_action(bs) ==
    IF bs.deletion_timestamp THEN "Delete"
    ELSE IF (IF bs.finalizers.some THEN bs.finalizers.v = <<>> ELSE TRUE) THEN "Create"
    ELSE "NoOp"

\* Action::requeue(10) / Action::await_change() / on_error's Action::requeue(5)
Requeue(n) == [requeue |-> TRUE, after |-> n]
AwaitChange == [requeue |-> FALSE, after |-> 0]
NoDirective == [requeue |-> FALSE, after |-> 1]

on_error == Requeue(RequeueErr)

OwnerRef(bs) ==
    [api_version |-> "tomjo.net/v1", kind |-> "BitwardenSecret", name |-> bs.name,
     uid |-> bs.uid, block_owner_deletion |-> TRUE]

\* reconcile's namespace: the snapshot's, or "default" when it has none
namespace_of(bs) == IF bs.namespace.some THEN bs.namespace.v ELSE "default"

\* reconcile's labels: {"app": name}
Labels(name) == [l \in {"app"} |-> name]

NewSecret_TwoOwners(owner_ref, name, namespace, type_, keys, labels) ==
    [exists |-> TRUE, name |-> name, namespace |-> namespace,
     labels |-> labels,
     owner_references |-> <<owner_ref, owner_ref>>,
     string_data |-> keys, type_ |-> type_]

NewSecret_DropKey(owner_ref, name, namespace, type_, keys, labels) ==
    [exists |-> TRUE, name |-> name, namespace |-> namespace,
     labels |-> labels,
     owner_references |-> <<owner_ref>>,
     string_data |-> [k \in DOMAIN keys \ {"secretkey", "pass"} |-> keys[k]],
     type_ |-> type_]

\* The Secret create_secret builds
NewSecret(owner_ref, name, namespace, type_, keys, labels) ==
    [exists |-> TRUE, name |-> name, namespace |-> namespace,
     labels |-> labels,
     owner_references |-> <<owner_ref>>,
     string_data |-> keys, type_ |-> type_]

\* ------------------------------------------------------------------ Init
Init ==
    /\ resource = NoResource
    /\ secret = NoSecret
    /\ nextUid = 1
    /\ session = "none"
    /\ pc = "idle"
    /\ snap = NoResource
    /\ action = "none"
    /\ secret_keys = NoKeys
    /\ calls = <<>>
    /\ result = "none"
    /\ directive = NoDirective
    /\ on_error_called = FALSE
    /\ scheduled = FALSE
    /\ drifted = FALSE

\* ------------------------------------------------- cluster and user steps
FinEmpty(r) == ~r.finalizers.some \/ r.finalizers.v = <<>>

\* The user creates the BitwardenSecret; the API server assigns a fresh UID.
UserCreate ==
    /\ resource = NoResource
    /\ nextUid <= MaxUid
    /\ \E path \in Paths, type_ \in Types, fin \in {None, Some(<<>>)} :
          resource' = [exists |-> TRUE, name |-> Name, namespace |-> Some(Namespace),
                       uid |-> nextUid, deletion_timestamp |-> FALSE,
                       finalizers |-> fin, path |-> path, type_ |-> type_]
    /\ nextUid' = nextUid + 1
    /\ scheduled' = TRUE
    /\ UNCHANGED <<secret, session, pc, snap, action, secret_keys, calls, result,
                   directive, on_error_called, drifted>>

\* The user requests deletion: the API server sets the deletion timestamp.
UserDelete ==
    /\ resource.exists
    /\ ~resource.deletion_timestamp
    /\ resource' = [resource EXCEPT !.deletion_timestamp = TRUE]
    /\ scheduled' = TRUE
    /\ UNCHANGED <<secret, nextUid, session, pc, snap, action, secret_keys, calls,
                   result, directive, on_error_called, drifted>>

\* The API server removes a resource under deletion whose finalizer set is empty.
Finalize ==
    /\ resource.exists
    /\ resource.deletion_timestamp
    /\ FinEmpty(resource)
    /\ resource' = NoResource
    /\ UNCHANGED <<secret, nextUid, session, pc, snap, action, secret_keys, calls,
                   result, directive, on_error_called, scheduled, drifted>>

OwnerLive(s) ==
    \E i \in 1..Len(s.owner_references) :
        resource.exists /\ resource.uid = s.owner_references[i].uid

\* The owner-reference garbage collector removes a secret none of whose owners is live.
GarbageCollect ==
    /\ secret.exists
    /\ secret.owner_references # <<>>
    /\ ~OwnerLive(secret)
    /\ secret' = NoSecret
    /\ UNCHANGED <<resource, nextUid, session, pc, snap, action, secret_keys, calls,
                   result, directive, on_error_called, scheduled, drifted>>

\* Drift: somebody deletes the target secret by hand.
UserDeleteSecret ==
    /\ secret.exists
    /\ secret' = NoSecret
    /\ drifted' = TRUE
    /\ UNCHANGED <<resource, nextUid, session, pc, snap, action, secret_keys, calls,
                   result, directive, on_error_called, scheduled>>

\* The runtime abandons the in-flight reconcile (shutdown); the restarted
\* controller has a fresh context and lists every resource again.
Abandon ==
    /\ pc # "idle"
    /\ pc' = "idle"
    /\ result' = "Abandoned"
    /\ directive' = NoDirective
    /\ on_error_called' = FALSE
    /\ session' = "none"
    /\ scheduled' = TRUE
    /\ UNCHANGED <<resource, secret, nextUid, snap, action, secret_keys, calls, drifted>>

\* ----------------------------------------------------------- reconcile
\* reconcile returns Ok(directive)
ReturnOk(d) ==
    /\ pc' = "idle"
    /\ result' = "Ok"
    /\ directive' = d
    /\ on_error_called' = FALSE

\* reconcile returns Err through `?`; the runtime calls on_error
ReturnErr ==
    /\ pc' = "idle"
    /\ result' = "Err"
    /\ directive' = on_error
    /\ on_error_called' = TRUE

Begin ==
    /\ pc = "idle"
    /\ scheduled
    /\ resource.exists
    /\ snap' = resource
    /\ action' = determine_action(resource)
    /\ calls' = <<>>
    /\ secret_keys' = NoKeys

ReconcileCreate_NoFinalizer ==
    /\ Begin
    /\ determine_action(resource) = "Create"
    /\ pc' = "fetch_item"
    /\ scheduled' = FALSE
    /\ UNCHANGED <<resource, secret, nextUid, session, result, directive,
                   on_error_called, drifted>>

\* reconcile entered with a snapshot classified Create: up to the first await
ReconcileCreate ==
    /\ Begin
    /\ determine_action(resource) = "Create"
    /\ pc' = "add_finalizer"
    /\ scheduled' = FALSE
    /\ UNCHANGED <<resource, secret, nextUid, session, result, directive,
                   on_error_called, drifted>>

\* reconcile entered with a snapshot classified Delete: up to the first await
ReconcileDelete ==
    /\ Begin
    /\ determine_action(resource) = "Delete"
    /\ pc' = "delete_secret_get"
    /\ scheduled' = FALSE
    /\ UNCHANGED <<resource, secret, nextUid, session, result, directive,
                   on_error_called, drifted>>

ReconcileNoOp_Resync ==
    /\ Begin
    /\ determine_action(resource) = "NoOp"
    /\ pc' = "fetch_item"
    /\ scheduled' = FALSE
    /\ UNCHANGED <<resource, secret, nextUid, session, result, directive,
                   on_error_called, drifted>>

\* reconcile entered with a snapshot classified NoOp: returns at once
ReconcileNoOp ==
    /\ Begin
    /\ determine_action(resource) = "NoOp"
    /\ ReturnOk(Requeue(RequeueOk))
    /\ scheduled' = TRUE
    /\ UNCHANGED <<resource, secret, nextUid, session, drifted>>

\* --- Create path ---------------------------------------------------------
\* The API server accepts the merge patch {"metadata":{"finalizers":[token]}}:
\* the resource must exist, and no finalizer may be added to a resource that
\* is being deleted.
PatchAddAccepted ==
    /\ resource.exists
    /\ (resource.deletion_timestamp =>
           \E i \in 1..Len(resource.finalizers.v) : resource.finalizers.v[i] = FinalizerToken)

AddFinalizerPatch_Append(r) ==
    [r EXCEPT !.finalizers = Some(r.finalizers.v \o <<FinalizerToken>>)]

\* The resource after the merge patch {"metadata":{"finalizers":[token]}}
AddFinalizerPatch(r) ==
    [r EXCEPT !.finalizers = Some(<<FinalizerToken>>)]

AddFinalizer_IgnoreErr ==
    /\ pc = "add_finalizer"
    /\ \E transport_ok \in BOOLEAN :
        IF transport_ok /\ PatchAddAccepted
        THEN /\ resource' = AddFinalizerPatch(resource)
             /\ scheduled' = (scheduled \/ resource' # resource)
             /\ calls' = Append(calls, Call("patch_add_finalizer", Name, TRUE))
        ELSE /\ calls' = Append(calls, ApiErr("patch_add_finalizer", Name,
                                  IF ~transport_ok THEN "transport"
                                  ELSE IF ~resource.exists THEN "not_found"
                                  ELSE "forbidden"))
             /\ UNCHANGED <<resource, scheduled>>
    /\ pc' = "fetch_item"
    /\ UNCHANGED <<secret, nextUid, session, snap, action, secret_keys, drifted,
                   result, directive, on_error_called>>

\* add_finalizer(...).await? : the merge patch, without an existence check
AddFinalizer ==
    /\ pc = "add_finalizer"
    /\ \E transport_ok \in BOOLEAN :
        IF transport_ok /\ PatchAddAccepted
        THEN /\ resource' = AddFinalizerPatch(resource)
             /\ scheduled' = (scheduled \/ resource' # resource)
             /\ calls' = Append(calls, Call("patch_add_finalizer", Name, TRUE))
             /\ pc' = "fetch_item"
             /\ UNCHANGED <<result, directive, on_error_called>>
        ELSE /\ calls' = Append(calls, ApiErr("patch_add_finalizer", Name,
                                  IF ~transport_ok THEN "transport"
                                  ELSE IF ~resource.exists THEN "not_found"
                                  ELSE "forbidden"))
             /\ ReturnErr
             /\ scheduled' = TRUE
             /\ UNCHANGED resource
    /\ UNCHANGED <<secret, nextUid, session, snap, action, secret_keys, drifted>>

\* The path reconcile hands to fetch_item
FetchPath(bs) == HardcodedPath

\* The vault session wrapper: fetch_item establishes the session when there is
\* none and reuses it otherwise; reset drops it.
fetch_item_log(path, ok) ==
    IF session = "none"
    THEN <<Call("login", "", TRUE), Call("fetch_item", path, ok)>>
    ELSE <<Call("fetch_item", path, ok)>>

fetch_item_session == "active"

reset_session == "none"

\* bw_client.fetch_item(path) succeeds: the session is established (or reused)
\* and the item's fields are returned; building the OwnerReference then
\* panics (uid().expect) when the snapshot has no UID
FetchItemOk ==
    /\ pc = "fetch_item"
    /\ session' = fetch_item_session
    /\ secret_keys' = VaultItem(FetchPath(snap))
    /\ calls' = calls \o fetch_item_log(FetchPath(snap), TRUE)
    /\ IF snap.uid = NoUid
       THEN pc' = "panicked" /\ result' = "Panic"
       ELSE pc' = "create_secret" /\ result' = result
    /\ UNCHANGED <<resource, secret, nextUid, snap, action, directive,
                   on_error_called, scheduled, drifted>>

\* What reconcile does once fetch_item has failed
AfterFetchErr_Propagate ==
    /\ calls' = calls \o fetch_item_log(FetchPath(snap), FALSE)
    /\ session' = session
    /\ ReturnErr

AfterFetchErr_NoReset ==
    /\ calls' = calls \o fetch_item_log(FetchPath(snap), FALSE)
    /\ session' = session
    /\ ReturnOk(Requeue(RequeueOk))

AfterFetchErr ==
    /\ calls' = Append(calls \o fetch_item_log(FetchPath(snap), FALSE),
                       Call("reset", "", TRUE))
    /\ session' = reset_session
    /\ ReturnOk(Requeue(RequeueOk))

\* bw_client.fetch_item(path) fails: reset the session, return Ok(requeue 10)
FetchItemErr ==
    /\ pc = "fetch_item"
    /\ AfterFetchErr
    /\ scheduled' = TRUE
    /\ UNCHANGED <<resource, secret, nextUid, snap, action, secret_keys, drifted>>

CreateSecret_Upsert ==
    /\ pc = "create_secret"
    /\ \E transport_ok \in BOOLEAN :
        IF transport_ok
        THEN /\ secret' = NewSecret(OwnerRef(snap), snap.name, namespace_of(snap),
                                 snap.type_, secret_keys, Labels(snap.name))
             /\ drifted' = FALSE
             /\ calls' = Append(calls, Call("create_secret", Name, TRUE))
             /\ ReturnOk(Requeue(RequeueOk))
        ELSE /\ calls' = Append(calls, ApiErr("create_secret", Name, "transport"))
             /\ ReturnErr
             /\ UNCHANGED <<secret, drifted>>
    /\ scheduled' = TRUE
    /\ UNCHANGED <<resource, nextUid, session, snap, action, secret_keys>>

\* create_secret(...).await? : a plain create; a secret that exists is a conflict
CreateSecret ==
    /\ pc = "create_secret"
    /\ \E transport_ok \in BOOLEAN :
        IF transport_ok /\ ~secret.exists
        THEN /\ secret' = NewSecret(OwnerRef(snap), snap.name, namespace_of(snap),
                                 snap.type_, secret_keys, Labels(snap.name))
             /\ drifted' = FALSE
             /\ calls' = Append(calls, Call("create_secret", Name, TRUE))
             /\ ReturnOk(Requeue(RequeueOk))
        ELSE /\ calls' = Append(calls, ApiErr("create_secret", Name,
                                  IF ~transport_ok THEN "transport" ELSE "conflict"))
             /\ ReturnErr
             /\ UNCHANGED <<secret, drifted>>
    /\ scheduled' = TRUE
    /\ UNCHANGED <<resource, nextUid, session, snap, action, secret_keys>>

\* --- Delete path ---------------------------------------------------------
DeleteSecretGet_Inverted ==
    /\ pc = "delete_secret_get"
    /\ calls' = IF ~secret.exists
                THEN Append(calls, Call("get_secret", Name, TRUE))
                ELSE Append(Append(calls, Call("get_secret", Name, TRUE)),
                            Call("delete_secret", Name, TRUE))
    /\ pc' = IF ~secret.exists THEN "delete_secret_delete" ELSE "delete_finalizer_get"
    /\ UNCHANGED <<resource, secret, nextUid, session, snap, action, secret_keys, drifted,
                   result, directive, on_error_called, scheduled>>

DeleteSecretGet_NoCheck ==
    /\ pc = "delete_secret_get"
    /\ calls' = Append(calls, Call("get_secret", Name, TRUE))
    /\ pc' = "delete_secret_delete"
    /\ UNCHANGED <<resource, secret, nextUid, session, snap, action, secret_keys, drifted,
                   result, directive, on_error_called, scheduled>>

\* delete_secret: api.get_opt(name).await?.is_some()
DeleteSecretGet ==
    /\ pc = "delete_secret_get"
    /\ \E transport_ok \in BOOLEAN :
        IF transport_ok
        THEN /\ calls' = IF secret.exists
                         THEN Append(calls, Call("get_secret", Name, TRUE))
                         ELSE Append(Append(calls, Call("get_secret", Name, TRUE)),
                                     Call("delete_secret", Name, TRUE))
             /\ pc' = IF secret.exists THEN "delete_secret_delete" ELSE "delete_finalizer_get"
             /\ UNCHANGED <<result, directive, on_error_called, scheduled>>
        ELSE /\ calls' = Append(Append(calls, ApiErr("get_secret", Name, "transport")),
                                Call("delete_secret", Name, FALSE))
             /\ ReturnErr
             /\ scheduled' = TRUE
    /\ UNCHANGED <<resource, secret, nextUid, session, snap, action, secret_keys, drifted>>

DeleteSecretDelete_IgnoreErr ==
    /\ pc = "delete_secret_delete"
    /\ \E transport_ok \in BOOLEAN :
        IF transport_ok /\ secret.exists
        THEN /\ secret' = NoSecret
             /\ calls' = Append(Append(calls, Call("delete", Name, TRUE)),
                                Call("delete_secret", Name, TRUE))
        ELSE /\ calls' = Append(Append(calls, ApiErr("delete", Name,
                                  IF ~transport_ok THEN "transport" ELSE "not_found")),
                                Call("delete_secret", Name, FALSE))
             /\ UNCHANGED secret
    /\ pc' = "delete_finalizer_get"
    /\ UNCHANGED <<resource, nextUid, session, snap, action, secret_keys, drifted,
                   result, directive, on_error_called, scheduled>>

\* delete_secret: api.delete(name).await? ; deleting a secret that is gone is an error
DeleteSecretDelete ==
    /\ pc = "delete_secret_delete"
    /\ \E transport_ok \in BOOLEAN :
        IF transport_ok /\ secret.exists
        THEN /\ secret' = NoSecret
             /\ calls' = Append(Append(calls, Call("delete", Name, TRUE)),
                                Call("delete_secret", Name, TRUE))
             /\ pc' = "delete_finalizer_get"
             /\ UNCHANGED <<result, directive, on_error_called, scheduled>>
        ELSE /\ calls' = Append(Append(calls, ApiErr("delete", Name,
                                  IF ~transport_ok THEN "transport" ELSE "not_found")),
                                Call("delete_secret", Name, FALSE))
             /\ ReturnErr
             /\ scheduled' = TRUE
             /\ UNCHANGED secret
    /\ UNCHANGED <<resource, nextUid, session, snap, action, secret_keys, drifted>>

DeleteFinalizerGet_NoCheck ==
    /\ pc = "delete_finalizer_get"
    /\ calls' = Append(calls, Call("get_resource", Name, TRUE))
    /\ pc' = "delete_finalizer_patch"
    /\ UNCHANGED <<resource, secret, nextUid, session, snap, action, secret_keys, drifted,
                   result, directive, on_error_called, scheduled>>

\* delete_finalizer: api.get_opt(name).await?.is_some() ; a resource that is
\* gone ends the function, and reconcile, with Ok
DeleteFinalizerGet ==
    /\ pc = "delete_finalizer_get"
    /\ \E transport_ok \in BOOLEAN :
        IF transport_ok
        THEN /\ calls' = Append(calls, Call("get_resource", Name, TRUE))
             /\ IF resource.exists
                THEN /\ pc' = "delete_finalizer_patch"
                     /\ UNCHANGED <<result, directive, on_error_called, scheduled>>
                ELSE /\ ReturnOk(AwaitChange)
                     /\ UNCHANGED scheduled
        ELSE /\ calls' = Append(calls, ApiErr("get_resource", Name, "transport"))
             /\ ReturnErr
             /\ scheduled' = TRUE
    /\ UNCHANGED <<resource, secret, nextUid, session, snap, action, secret_keys, drifted>>

\* delete_finalizer: the merge patch {"metadata":{"finalizers":null}}, then
\* reconcile returns Ok(await_change)
DeleteFinalizerPatch ==
    /\ pc = "delete_finalizer_patch"
    /\ \E transport_ok \in BOOLEAN :
        IF transport_ok /\ resource.exists
        THEN /\ resource' = [resource EXCEPT !.finalizers = None]
             /\ calls' = Append(calls, Call("patch_remove_finalizer", Name, TRUE))
             /\ ReturnOk(AwaitChange)
             /\ scheduled' = (scheduled \/ resource' # resource)
        ELSE /\ calls' = Append(calls, ApiErr("patch_remove_finalizer", Name,
                                  IF ~transport_ok THEN "transport" ELSE "not_found"))
             /\ ReturnErr
             /\ scheduled' = TRUE
             /\ UNCHANGED resource
    /\ UNCHANGED <<secret, nextUid, session, snap, action, secret_keys, drifted>>

\* ------------------------------------------------------------ specification
Next ==
    \/ UserCreate \/ UserDelete \/ Finalize \/ GarbageCollect \/ UserDeleteSecret
    \/ Abandon
    \/ ReconcileCreate \/ ReconcileDelete \/ ReconcileNoOp
    \/ AddFinalizer \/ FetchItemOk \/ FetchItemErr \/ CreateSecret
    \/ DeleteSecretGet \/ DeleteSecretDelete
    \/ DeleteFinalizerGet \/ DeleteFinalizerPatch

Spec == Init /\ [][Next]_vars

\* The runtime keeps running due reconciliations, cluster calls and the vault
\* eventually answer, and the API server finalises and collects.
Fairness ==
    /\ WF_vars(ReconcileCreate) /\ WF_vars(ReconcileDelete) /\ WF_vars(ReconcileNoOp)
    /\ SF_vars(AddFinalizer /\ pc' = "fetch_item")
    /\ SF_vars(FetchItemOk)
    /\ SF_vars(CreateSecret /\ result' = "Ok")
    /\ WF_vars(DeleteSecretGet) /\ WF_vars(DeleteSecretDelete)
    /\ WF_vars(DeleteFinalizerGet) /\ WF_vars(DeleteFinalizerPatch)
    /\ WF_vars(Finalize) /\ WF_vars(GarbageCollect)

FairSpec == Init /\ [][Next]_vars /\ Fairness

\* --- a secret of the target name made by somebody else --------------------
ForeignSecret ==
    [exists |-> TRUE, name |-> Name, namespace |-> Namespace,
     labels |-> [l \in {"owner"} |-> "somebody"],
     owner_references |-> <<>>,
     string_data |-> [k \in {"token"} |-> "foreign"], type_ |-> "Opaque"]

\* Somebody else creates a secret with the target's name and namespace.
ForeignCreateSecret ==
    /\ ~secret.exists
    /\ secret' = ForeignSecret
    /\ UNCHANGED <<resource, nextUid, session, pc, snap, action, secret_keys, calls,
                   result, directive, on_error_called, scheduled, drifted>>

NextForeign == Next \/ ForeignCreateSecret

ForeignSpec == Init /\ [][NextForeign]_vars

\* --- add_finalizer on its own ---------------------------------------------
\* add_finalizer is a public function: a caller holding any existing resource
\* invokes it, and invokes it again once it has returned Ok.
ForeignFinalizer == "foreign.example/finalizer"

ExistingResources ==
    { [exists |-> TRUE, name |-> Name, namespace |-> Some(Namespace), uid |-> 1,
       deletion_timestamp |-> dt, finalizers |-> fin, path |-> path, type_ |-> type_] :
         dt \in BOOLEAN,
         fin \in {None, Some(<<>>), Some(<<FinalizerToken>>), Some(<<ForeignFinalizer>>),
                  Some(<<ForeignFinalizer, FinalizerToken>>)},
         path \in Paths, type_ \in Types }

InitAddFinalizer ==
    /\ resource \in ExistingResources
    /\ secret = NoSecret
    /\ nextUid = 2
    /\ session = "none"
    /\ pc = "add_finalizer"
    /\ snap = resource
    /\ action = "none"
    /\ secret_keys = NoKeys
    /\ calls = <<>>
    /\ result = "none"
    /\ directive = NoDirective
    /\ on_error_called = FALSE
    /\ scheduled = FALSE
    /\ drifted = FALSE

InvokeAgain ==
    /\ pc = "fetch_item"
    /\ Len(calls) < MaxInvocations
    /\ pc' = "add_finalizer"
    /\ UNCHANGED <<resource, secret, nextUid, session, snap, action, secret_keys, calls,
                   result, directive, on_error_called, scheduled, drifted>>

NextAddFinalizer == AddFinalizer \/ InvokeAgain

AddFinalizerSpec == InitAddFinalizer /\ [][NextAddFinalizer]_vars

\* --- reconcile handed a malformed snapshot ---------------------------------
\* metadata.uid and metadata.namespace are Options: the resource first observed
\* lacks one of them or both.
MalformedResources ==
    { [exists |-> TRUE, name |-> Name, namespace |-> ns, uid |-> uid,
       deletion_timestamp |-> FALSE, finalizers |-> fin, path |-> path, type_ |-> type_] :
         ns \in {NoNamespace, Some(Namespace)}, uid \in {NoUid, 1},
         fin \in {None, Some(<<>>)}, path \in Paths, type_ \in Types }
      \ ExistingResources

InitMalformed ==
    /\ resource \in MalformedResources
    /\ secret = NoSecret
    /\ nextUid = 2
    /\ session = "none"
    /\ pc = "idle"
    /\ snap = NoResource
    /\ action = "none"
    /\ secret_keys = NoKeys
    /\ calls = <<>>
    /\ result = "none"
    /\ directive = NoDirective
    /\ on_error_called = FALSE
    /\ scheduled = TRUE
    /\ drifted = FALSE

MalformedSpec == InitMalformed /\ [][Next]_vars

TypeOK ==
    /\ pc \in {"idle", "panicked", "add_finalizer", "fetch_item", "create_secret", "delete_secret_get",
               "delete_secret_delete", "delete_finalizer_get", "delete_finalizer_patch"}
    /\ session \in {"none", "active"}
    /\ result \in {"none", "Ok", "Err", "Abandoned", "Panic"}
    /\ action \in {"none", "Create", "Delete", "NoOp"}
    /\ nextUid \in 1..(MaxUid + 1)

\* ==================================================================== claims
Issued(op) == \E i \in 1..Len(calls) : calls[i].op = op
Returned(op, ok) == \E i \in 1..Len(calls) : calls[i] = Call(op, Name, ok)

\* C1: in the Delete path nothing of delete_finalizer (its existence check or its
\* patch) is issued before delete_secret has returned success; when delete_secret
\* fails, no finalizer call is issued at all, the finalizer of the snapshot is
\* still on the resource, and reconcile has ended in an error that requeues it.
C1_FinalizerAfterSecret ==
    /\ \A i \in 1..Len(calls) :
          calls[i].op \in {"get_resource", "patch_remove_finalizer"}
             => \E j \in 1..(i - 1) : calls[j] = Call("delete_secret", Name, TRUE)
    /\ Returned("delete_secret", FALSE)
          => /\ ~Issued("get_resource") /\ ~Issued("patch_remove_finalizer")
             /\ pc = "idle" /\ result = "Err" /\ directive.requeue /\ scheduled
             /\ ~FinEmpty(snap)
                   => /\ resource.exists /\ resource.uid = snap.uid
                      /\ resource.finalizers = snap.finalizers

C1_Witness ==
    /\ pc = "idle" /\ action = "Delete"
    /\ Returned("delete", TRUE)
    /\ Returned("patch_remove_finalizer", TRUE)

\* C2: the action chosen for a snapshot is Delete when the deletion timestamp is
\* set (whatever the finalizers), Create when it is unset and the finalizers are
\* absent or empty, NoOp when it is unset and the finalizers are non-empty.
C2_Classification ==
    action # "none" =>
        /\ action \in {"Create", "Delete", "NoOp"}
        /\ snap.deletion_timestamp => action = "Delete"
        /\ (~snap.deletion_timestamp /\ ~snap.finalizers.some) => action = "Create"
        /\ (~snap.deletion_timestamp /\ snap.finalizers = Some(<<>>)) => action = "Create"
        /\ (~snap.deletion_timestamp /\ snap.finalizers.some /\ Len(snap.finalizers.v) > 0)
              => action = "NoOp"

C2_Witness ==
    /\ action = "Delete" /\ snap.deletion_timestamp
    /\ snap.finalizers = Some(<<FinalizerToken>>)

\* C3: a resource left with the finalizer registered and no target secret (after
\* a failed vault fetch or an abandoned reconcile) eventually gets its target
\* secret, unless it is deleted first.
Live == resource.exists /\ ~resource.deletion_timestamp

C3_RetryCreatesSecret ==
    (/\ pc = "idle" /\ Live /\ resource.finalizers = Some(<<FinalizerToken>>)
     /\ ~secret.exists
     /\ (result = "Abandoned" \/ \E i \in 1..Len(calls) :
                                     calls[i].op = "fetch_item" /\ ~calls[i].ok))
       ~> (secret.exists \/ ~Live)

\* C4: once the vault fetch has failed, the invocation has issued no create of
\* the target secret, has reset the session, and has returned Ok(requeue 10)
\* without on_error being called.
FetchFailed == \E i \in 1..Len(calls) : calls[i].op = "fetch_item" /\ ~calls[i].ok

C4_FetchFailure ==
    FetchFailed =>
        /\ ~Issued("create_secret")
        /\ calls[Len(calls)] = Call("reset", "", TRUE)
        /\ session = "none"
        /\ pc = "idle" /\ result = "Ok" /\ directive = Requeue(10)
        /\ ~on_error_called

C4_Witness == FetchFailed /\ pc = "idle" /\ action = "Create"

\* C5: a target secret never outlives its resource: whenever the secret exists,
\* the resource exists and the secret's single owner reference carries the UID
\* of the live resource.
C5_SecretNeverOutlives ==
    secret.exists =>
        /\ resource.exists
        /\ \A i \in 1..Len(secret.owner_references) :
              secret.owner_references[i].uid = resource.uid

\* C5 (first half only): no secret without a resource of that name.
C5_NoSecretWithoutResource == secret.exists => resource.exists

\* C6: when the target secret of a live resource has gone missing after a
\* sync, the requeued reconciliations eventually put it back, unless the
\* resource is deleted first.
C6_DriftRepaired ==
    (drifted /\ Live /\ ~secret.exists /\ pc = "idle") ~> (secret.exists \/ ~Live)

\* C7: every fetch_item call of a reconcile is made for the vault item path
\* configured on the resource being reconciled.
C7_FetchConfiguredPath ==
    \A i \in 1..Len(calls) : calls[i].op = "fetch_item" => calls[i].arg = snap.path

\* C8: whenever a secret comes into existence it carries exactly one owner
\* reference, whose UID is the UID of the snapshot being reconciled and whose
\* name is the resource's name.
C8_OwnerReference ==
    [][(~secret.exists /\ secret'.exists) =>
          /\ Len(secret'.owner_references) = 1
          /\ secret'.owner_references[1].uid = snap.uid
          /\ secret'.owner_references[1].name = Name]_vars

C8_Witness ==
    /\ secret.exists /\ Returned("create_secret", TRUE)
    /\ secret.owner_references[1].uid = snap.uid

\* C9: a reconcile of a snapshot with a non-empty finalizer set and no deletion
\* timestamp issues no call, leaves resource, secret and session as they are,
\* and returns Ok(requeue 10).
ReconcileEntered ==
    /\ pc = "idle"
    /\ <<pc, snap, action, calls, result, directive, on_error_called>>'
          # <<pc, snap, action, calls, result, directive, on_error_called>>
    /\ snap' = resource

C9_NoOpFrame ==
    [][(ReconcileEntered /\ Live /\ ~FinEmpty(resource)) =>
          /\ resource' = resource /\ secret' = secret /\ session' = session
          /\ calls' = <<>>
          /\ pc' = "idle" /\ result' = "Ok" /\ directive' = Requeue(10)
          /\ ~on_error_called']_vars

C9_Witness ==
    /\ action = "NoOp" /\ pc = "idle" /\ result = "Ok" /\ calls = <<>>
    /\ secret.exists /\ Live

\* C10: a Delete-path reconcile that returns Ok ends with the target secret
\* absent and no finalizer on the resource, and its directive is await_change.
C10_DeleteEnds ==
    [][(action = "Delete" /\ pc # "idle" /\ pc' = "idle" /\ result' = "Ok") =>
          /\ ~secret'.exists
          /\ resource'.exists => FinEmpty(resource')
          /\ directive' = AwaitChange]_vars

C10_Witness ==
    /\ pc = "idle" /\ action = "Delete" /\ result = "Ok"
    /\ Returned("delete", TRUE) /\ Returned("patch_remove_finalizer", TRUE)
    /\ ~secret.exists

\* C11: the step that creates the target secret belongs to an invocation that
\* first patched the finalizer, then fetched, then created; the secret has the
\* snapshot's name, namespace and type tag and exactly the fetched mapping as
\* payload, and reconcile returns Ok(requeue 10).
C11_CreateSync ==
    [][(~secret.exists /\ secret'.exists) =>
          /\ \E i, j, k \in 1..Len(calls') :
                /\ i < j /\ j < k /\ k = Len(calls')
                /\ calls'[i] = Call("patch_add_finalizer", Name, TRUE)
                /\ calls'[j].op = "fetch_item" /\ calls'[j].ok
                /\ calls'[k] = Call("create_secret", Name, TRUE)
                /\ secret'.string_data = VaultItem(calls'[j].arg)
          /\ snap.namespace.some /\ secret'.namespace = snap.namespace.v
          /\ secret'.name = snap.name
          /\ secret'.type_ = snap.type_
          /\ pc' = "idle" /\ result' = "Ok" /\ directive' = Requeue(10)]_vars

C11_Witness ==
    /\ secret.exists /\ Returned("create_secret", TRUE)
    /\ secret.type_ = "kubernetes.io/basic-auth" /\ snap.type_ = secret.type_
    /\ DOMAIN secret.string_data = {"accesskey", "secretkey"}
    /\ resource.exists /\ resource.finalizers = Some(<<FinalizerToken>>)

\* A step of the in-flight reconcile that issued a cluster call which did not
\* fail in transport
CallStep ==
    /\ Len(calls') > Len(calls)
    /\ \A i \in (Len(calls) + 1)..Len(calls') : calls'[i].kind # "transport"

\* C12: delete_finalizer on a resource that does not exist returns Ok without
\* a patch and changes nothing; on a resource without finalizers it goes on to
\* the patch, which succeeds and leaves the finalizer set empty.
C12_RemoveFinalizerIdempotent ==
    [][/\ (pc = "delete_finalizer_get" /\ ~resource.exists /\ CallStep)
            => /\ pc' = "idle" /\ result' = "Ok" /\ ~on_error_called'
               /\ \A i \in 1..Len(calls') : calls'[i].op # "patch_remove_finalizer"
               /\ resource' = resource /\ secret' = secret
       /\ (pc = "delete_finalizer_get" /\ resource.exists /\ FinEmpty(resource) /\ CallStep)
            => pc' = "delete_finalizer_patch"
       /\ (pc = "delete_finalizer_patch" /\ resource.exists /\ FinEmpty(resource) /\ CallStep)
            => /\ pc' = "idle" /\ result' = "Ok" /\ ~on_error_called'
               /\ resource'.exists /\ FinEmpty(resource')]_vars

C12_Witness ==
    /\ pc = "idle" /\ action = "Delete" /\ result = "Ok"
    /\ ~resource.exists
    /\ calls[Len(calls)] = Call("get_resource", Name, TRUE)

\* C13: once add_finalizer has succeeded on a resource, the finalizer set is
\* exactly the controller's token, however many times it is invoked after that,
\* and every further invocation succeeds (unless its transport fails).
C13_AddFinalizerIdempotent ==
    (Len(calls) >= 1 /\ calls[1].ok) =>
        /\ resource.finalizers = Some(<<FinalizerToken>>)
        /\ \A j \in 2..Len(calls) : calls[j].ok \/ calls[j].kind = "transport"

C13_Witness ==
    /\ Len(calls) = 2 /\ calls[1].ok /\ calls[2].ok
    /\ snap.finalizers = Some(<<ForeignFinalizer>>)
    /\ resource.finalizers = Some(<<FinalizerToken>>)

\* C14: a Delete-path reconcile never returns an error because the secret or
\* the resource was removed under it: whenever it has returned Err, one of its
\* cluster calls failed in transport.
C14_ConcurrentRemovalBenign ==
    (pc = "idle" /\ action = "Delete" /\ result = "Err") =>
        \E i \in 1..Len(calls) : calls[i].kind = "transport"

\* C15: a failed fetch leaves no session behind, a missing session stays
\* missing until the next fetch attempt, and a fetch attempt made without a
\* session establishes it anew: so the first fetch attempt after a failure
\* never reuses the session of the time of the failure.
FetchAttempted(ok) ==
    \E i \in (Len(calls) + 1)..Len(calls') :
        calls'[i].op = "fetch_item" /\ calls'[i].ok = ok

ApiOps == {"patch_add_finalizer", "create_secret", "get_secret", "delete",
           "get_resource", "patch_remove_finalizer"}

C16_ApiFailureEnds ==
    \A i \in 1..Len(calls) :
        (calls[i].op \in ApiOps /\ ~calls[i].ok) =>
            /\ \A j \in (i + 1)..Len(calls) :
                  calls[j].op \notin ApiOps \cup {"login", "fetch_item", "reset"}
            /\ pc = "idle" /\ result = "Err"
            /\ on_error_called /\ directive = Requeue(5)

C16_Witness ==
    /\ calls = <<ApiErr("patch_add_finalizer", Name, "transport")>>
    /\ result = "Err" /\ directive = Requeue(5)

\* C17: reconcile never panics, and a reconcile of a snapshot without UID or
\* without namespace, none of whose cluster calls failed, returns Err with the
\* user-input error kind.
Malformed(bs) == bs.uid = NoUid \/ ~bs.namespace.some

C17_MalformedIsUserInputError ==
    /\ pc # "panicked"
    /\ (/\ pc = "idle" /\ action # "none" /\ result \in {"Ok", "Err"} /\ Malformed(snap)
        /\ \A i \in 1..Len(calls) : calls[i].op \in ApiOps => calls[i].ok)
          => /\ result = "Err"
             /\ \E i \in 1..Len(calls) : calls[i].kind = "UserInputError"

\* C18: create_secret run while a secret of the target name exists ends
\* reconcile with Err and leaves that secret exactly as it was.
C18_ConflictSurfaced ==
    [][(pc = "create_secret" /\ secret.exists /\ Len(calls') > Len(calls)) =>
          /\ secret' = secret
          /\ pc' = "idle" /\ result' = "Err" /\ on_error_called']_vars

C18_Witness ==
    /\ pc = "idle" /\ result = "Err"
    /\ calls[Len(calls)] = ApiErr("create_secret", Name, "conflict")
    /\ secret = ForeignSecret

\* C19: delete_secret with no secret present returns Ok without a delete call
\* and changes nothing; with the secret present at its delete call it removes
\* it; whenever it returns Ok the secret is absent.
DeleteSecretReturnedOk ==
    \E i \in (Len(calls) + 1)..Len(calls') : calls'[i] = Call("delete_secret", Name, TRUE)

C19_DeleteSecretIdempotent ==
    [][/\ (pc = "delete_secret_get" /\ ~secret.exists /\ CallStep)
            => /\ DeleteSecretReturnedOk
               /\ \A i \in 1..Len(calls') : calls'[i].op # "delete"
               /\ secret' = secret /\ resource' = resource
               /\ pc' = "delete_finalizer_get"
       /\ (pc = "delete_secret_get" /\ secret.exists /\ CallStep)
            => pc' = "delete_secret_delete"
       /\ (pc = "delete_secret_delete" /\ secret.exists /\ CallStep)
            => DeleteSecretReturnedOk /\ pc' = "delete_finalizer_get"
       /\ DeleteSecretReturnedOk => ~secret'.exists]_vars

\* a second delete_secret, in the retry after a failed invocation, succeeding
\* trivially with no secret present
C19_Witness ==
    /\ pc = "delete_finalizer_get"
    /\ calls = <<Call("get_secret", Name, TRUE), Call("delete_secret", Name, TRUE)>>
    /\ ~secret.exists
    /\ result = "Err"

\* C20: whenever the resource and a target secret both exist, the resource
\* carries the controller's finalizer.
HasFinalizer(r) ==
    \E i \in 1..Len(r.finalizers.v) : r.finalizers.v[i] = FinalizerToken

C20_CleanupGated ==
    (resource.exists /\ secret.exists) => HasFinalizer(resource)

C20_Witness ==
    /\ resource.exists /\ secret.exists /\ HasFinalizer(resource)
    /\ resource.deletion_timestamp
    /\ pc = "delete_secret_delete"

====
